---- MODULE Spec2Model ----
(***************************************************************************)
(* Statistics aggregation and reward accounting of the bike tracker API:   *)
(* the per-user aggregate kept on the User document, the per-week          *)
(* WeeklyStats documents, and the request handlers and utilities that      *)
(* read and write them (utils/calculateStats.js, models/WeeklyStats.js,    *)
(* controllers/rideController.js, controllers/adminController.js).         *)
(*                                                                         *)
(* Every handler is an async function: between two awaited database calls  *)
(* any other request may run, so each awaited database call is one action. *)
(***************************************************************************)
EXTENDS Integers, Sequences, FiniteSets, TLC

VARIABLES
    users,      \* User collection: userId -> aggregate fields of the document
    rides,      \* Ride collection: set of ride documents
    weekly,     \* WeeklyStats collection: set of documents
    flags,      \* Flag collection: set of documents
    nextRideId, \* next _id handed out by Ride
    now,        \* wall clock, as a local calendar day
    procs,      \* request slot -> the call running in it and its locals
    budget,     \* number of calls that may still start
    last        \* the call that returned in the last step, with its outcome

vars == <<users, rides, weekly, flags, nextRideId, now, procs, budget, last>>

----------------------------------------------------------------------------
(* Bounds *)

NumProcs == 2
MaxRequests == 3
MaxSeqRequests == 4
MaxWeeklyCalls == 2
MaxReplayCalls == 3
MaxRides == 2
MaxCalendarDays == 2600
MaxCoinInput == 12
MaxFlags == 2
MaxAdminRequests == 4
MaxGraphCalls == 4
MaxWeeks == 2

----------------------------------------------------------------------------
(* Calendar.  A Date is modelled at day granularity, as the local calendar *)
(* day [year, month, date] it shows (month 0-based, as in Date).            *)

IsLeap(y) == (y % 4 = 0 /\ y % 100 # 0) \/ y % 400 = 0

DaysInMonth(y, m) ==
    CASE m = 1 -> IF IsLeap(y) THEN 29 ELSE 28
      [] m \in {3, 5, 8, 10} -> 30
      [] OTHER -> 31

\* new Date(year, month, day) / Date.UTC(year, month, day): a day outside the month
\* rolls over into the neighbouring months
RECURSIVE DateOf(_, _, _)
DateOf(y, m, d) ==
    IF d < 1
    THEN IF m = 0 THEN DateOf(y - 1, 11, d + 31) ELSE DateOf(y, m - 1, d + DaysInMonth(y, m - 1))
    ELSE IF d > DaysInMonth(y, m)
    THEN IF m = 11 THEN DateOf(y + 1, 0, d - 31) ELSE DateOf(y, m + 1, d - DaysInMonth(y, m))
    ELSE [year |-> y, month |-> m, date |-> d]

getFullYear(date) == date.year

getMonth(date) == date.month

getDate(date) == date.date

\* d.setDate(n): day n of d's month, rolling over
setDate(date, n) == DateOf(date.year, date.month, n)

\* leap years before year y
LeapsBefore(y) == ((y - 1) \div 4) - ((y - 1) \div 100) + ((y - 1) \div 400)

\* days before the first of each month in a common year
DaysBeforeMonth == <<0, 31, 59, 90, 120, 151, 181, 212, 243, 273, 304, 334>>

\* the date's time value in days: days since 1970-01-01
DayNumber(date) ==
    365 * (date.year - 1970) + (LeapsBefore(date.year) - LeapsBefore(1970))
        + DaysBeforeMonth[date.month + 1]
        + (IF date.month > 1 /\ IsLeap(date.year) THEN 1 ELSE 0)
        + (date.date - 1)

\* 0 = Sunday .. 6 = Saturday; 1970-01-01 was a Thursday
getDay(date) == (DayNumber(date) + 4) % 7

----------------------------------------------------------------------------
(* Numbers that are quotients.  A quotient a / b of the code is kept exact  *)
(* as the reduced pair <<a', b'>>; <<1, 0>> is Infinity (x / 0 for x > 0)   *)
(* and <<0, 0>> is NaN (0 / 0).  Operands are non-negative.                 *)

RECURSIVE Gcd(_, _)
Gcd(a, b) == IF b = 0 THEN a ELSE Gcd(b, a % b)

Infinity == <<1, 0>>

\* 0 / 0
NaN == <<0, 0>>

Quot(a, b) ==
    IF b = 0 THEN (IF a = 0 THEN NaN ELSE Infinity)
    ELSE LET g == Gcd(a, b) IN IF g = 0 THEN <<0, 1>> ELSE <<a \div g, b \div g>>

\* a < b on quotients, with IEEE comparison of Infinity
Less(a, b) == a[1] * b[2] < b[1] * a[2]

null == <<>>

----------------------------------------------------------------------------
(* Pure parts of utils/calculateStats.js *)

\* a coin formula whose result wraps around at 64
calculateCoinsWrapped(distance, averageSpeed) == ((distance * averageSpeed + 1) \div 2) % 64

\* a coin formula that drops the fraction
calculateCoinsTruncated(distance, averageSpeed) == (distance * averageSpeed) \div 2

\* Math.round((distance * averageSpeed) / 2): nearest integer, halves upwards
calculateCoins(distance, averageSpeed) == (distance * averageSpeed + 1) \div 2

effortDistances == <<10, 20, 25, 50, 75, 100>>

effortKey(distance) ==
    CASE distance = 10 -> "best10kmTime"
      [] distance = 20 -> "best20kmTime"
      [] distance = 25 -> "best25kmTime"
      [] distance = 50 -> "best50kmTime"
      [] distance = 75 -> "best75kmTime"
      [] distance = 100 -> "best100kmTime"

\* (distance / ride.averageSpeed) * 3600, in seconds
timeForDistance(distance, ride) == Quot(distance * 3600, ride.averageSpeed)

\* an iteration that overwrites the stored time with every qualifying ride's estimate
updateEffortAlways(user, ride, distance) ==
    IF ride.distance >= distance
    THEN [user EXCEPT ![effortKey(distance)] = timeForDistance(distance, ride)]
    ELSE user

\* an iteration for which a ride of exactly the effort distance does not qualify
updateEffortBeyond(user, ride, distance) ==
    IF ride.distance > distance
    THEN IF user[effortKey(distance)] = null
            \/ Less(timeForDistance(distance, ride), user[effortKey(distance)])
         THEN [user EXCEPT ![effortKey(distance)] = timeForDistance(distance, ride)]
         ELSE user
    ELSE user

\* one iteration of the forEach of updateBestEfforts
updateEffort(user, ride, distance) ==
    IF ride.distance >= distance
    THEN IF user[effortKey(distance)] = null
            \/ Less(timeForDistance(distance, ride), user[effortKey(distance)])
         THEN [user EXCEPT ![effortKey(distance)] = timeForDistance(distance, ride)]
         ELSE user
    ELSE user

RECURSIVE updateBestEffortsFrom(_, _, _)
updateBestEffortsFrom(user, ride, i) ==
    IF i > Len(effortDistances) THEN user
    ELSE updateBestEffortsFrom(updateEffort(user, ride, effortDistances[i]), ride, i + 1)

updateBestEfforts(user, ride) == updateBestEffortsFrom(user, ride, 1)

\* the in-memory mutations of updateUserStats between findById and save
\* an update that takes every ride as the new longest ride
applyRideAsLongest(user, ride, currentYear) ==
    updateBestEfforts(
        [user EXCEPT !.totalDistance = @ + ride.distance,
                     !.distanceThisYear = IF getFullYear(ride.activityDate) = currentYear
                                          THEN @ + ride.distance ELSE @,
                     !.totalCoins = @ + ride.coinsEarned,
                     !.longestRideDistance = ride.distance,
                     !.longestRideTime = ride.movingTime,
                     !.maxElevationGained = ride.elevationGained], ride)

applyRideToUser(user, ride, currentYear) ==
    LET u1 == [user EXCEPT !.totalDistance = @ + ride.distance]
        u2 == IF getFullYear(ride.activityDate) = currentYear
              THEN [u1 EXCEPT !.distanceThisYear = @ + ride.distance] ELSE u1
        u3 == [u2 EXCEPT !.totalCoins = @ + ride.coinsEarned]
        u4 == IF ride.distance > u3.longestRideDistance
              THEN [u3 EXCEPT !.longestRideDistance = ride.distance] ELSE u3
        u5 == IF ride.movingTime > u4.longestRideTime
              THEN [u4 EXCEPT !.longestRideTime = ride.movingTime] ELSE u4
        u6 == IF ride.elevationGained > u5.maxElevationGained
              THEN [u5 EXCEPT !.maxElevationGained = ride.elevationGained] ELSE u5
    IN  updateBestEfforts(u6, ride)

\* a reset that forgets the best-effort times
resetStatsKeepingBests(user) ==
    [user EXCEPT !.totalDistance = 0, !.distanceThisYear = 0, !.totalCoins = 0,
                 !.longestRideDistance = 0, !.longestRideTime = 0,
                 !.maxElevationGained = 0]

\* the "Reset stats" block of recalculateUserStats
resetStats(user) ==
    [user EXCEPT !.totalDistance = 0, !.distanceThisYear = 0, !.totalCoins = 0,
                 !.longestRideDistance = 0, !.longestRideTime = 0,
                 !.maxElevationGained = 0,
                 !.best10kmTime = null, !.best20kmTime = null, !.best25kmTime = null,
                 !.best50kmTime = null, !.best75kmTime = null, !.best100kmTime = null]

\* recalcStep that adds every ride to distanceThisYear, whatever its year
recalcStepAnyYear(user, ride, currentYear) ==
    LET u1 == [user EXCEPT !.totalDistance = @ + ride.distance,
                           !.totalCoins = @ + ride.coinsEarned,
                           !.distanceThisYear = @ + ride.distance]
        u3 == IF ride.distance > u1.longestRideDistance
              THEN [u1 EXCEPT !.longestRideDistance = ride.distance] ELSE u1
        u4 == IF ride.movingTime > u3.longestRideTime
              THEN [u3 EXCEPT !.longestRideTime = ride.movingTime] ELSE u3
        u5 == IF ride.elevationGained > u4.maxElevationGained
              THEN [u4 EXCEPT !.maxElevationGained = ride.elevationGained] ELSE u4
    IN  updateBestEfforts(u5, ride)

\* one iteration of the "for (const ride of rides)" loop of recalculateUserStats
recalcStep(user, ride, currentYear) ==
    LET u1 == [user EXCEPT !.totalDistance = @ + ride.distance,
                           !.totalCoins = @ + ride.coinsEarned]
        u2 == IF getFullYear(ride.activityDate) = currentYear
              THEN [u1 EXCEPT !.distanceThisYear = @ + ride.distance] ELSE u1
        u3 == IF ride.distance > u2.longestRideDistance
              THEN [u2 EXCEPT !.longestRideDistance = ride.distance] ELSE u2
        u4 == IF ride.movingTime > u3.longestRideTime
              THEN [u3 EXCEPT !.longestRideTime = ride.movingTime] ELSE u3
        u5 == IF ride.elevationGained > u4.maxElevationGained
              THEN [u4 EXCEPT !.maxElevationGained = ride.elevationGained] ELSE u4
    IN  updateBestEfforts(u5, ride)

RECURSIVE recalcLoop(_, _, _, _)
recalcLoop(user, rideSeq, currentYear, i) ==
    IF i > Len(rideSeq) THEN user
    ELSE recalcLoop(recalcStep(user, rideSeq[i], currentYear), rideSeq, currentYear, i + 1)

\* the in-memory mutations of recalculateUserStats between Ride.find and save
recalcUser(user, rideSeq, currentYear) == recalcLoop(resetStats(user), rideSeq, currentYear, 1)

----------------------------------------------------------------------------
(* Mongoose documents *)

\* a User document as registration leaves it (aggregate fields only)
newUser ==
    [totalDistance |-> 0, distanceThisYear |-> 0, totalCoins |-> 0,
     longestRideDistance |-> 0, longestRideTime |-> 0, maxElevationGained |-> 0,
     best10kmTime |-> null, best20kmTime |-> null, best25kmTime |-> null,
     best50kmTime |-> null, best75kmTime |-> null, best100kmTime |-> null]

\* paths that an assignment changed: the paths document.save() writes back
modifiedPaths(before, after) == {f \in DOMAIN before : before[f] # after[f]}

\* document.save(): $set of the modified paths on the stored document
saveDoc(stored, doc, modified) ==
    [f \in DOMAIN stored |-> IF f \in modified THEN doc[f] ELSE stored[f]]

ridesOf(userId) == {r \in rides : r.userId = userId}

IsSortedByActivityDate(rideSeq) ==
    \A i \in 1..(Len(rideSeq) - 1) : DayNumber(rideSeq[i].activityDate) <= DayNumber(rideSeq[i + 1].activityDate)

\* the orders in which a sort by activityDate may return the rides of S
SortedSeqs(S) ==
    {q \in [1..Cardinality(S) -> S] :
        /\ \A i, j \in DOMAIN q : i # j => q[i] # q[j]
        /\ IsSortedByActivityDate(q)}

\* a Ride.find that drops the { userId } filter
findRidesOfAnyUser(userId) == SortedSeqs(rides)

\* Ride.find({ userId }).sort({ activityDate: 1 })
findRidesSorted(userId) == SortedSeqs({r \in rides : r.userId = userId})

----------------------------------------------------------------------------
(* Inputs *)

UserIds == {"u1", "u2"}

\* an id that resolves to no User document
NoUser == "nobody"

\* request bodies of POST /api/rides (the fields the statistics read)
RideInputs ==
    { [distance |-> 20, averageSpeed |-> 25, movingTime |-> 2880, elevationGained |-> 150],
      [distance |-> 10, averageSpeed |-> 20, movingTime |-> 1800, elevationGained |-> 0],
      [distance |-> 25, averageSpeed |-> 0, movingTime |-> 0, elevationGained |-> 300] }

\* the days the wall clock passes through: Mon 2024-12-30, Thu 2025-01-02
ClockDays == {DateOf(2024, 11, 30), DateOf(2025, 0, 2)}

----------------------------------------------------------------------------
(* Request slots *)

Procs == DOMAIN procs

Idle == [op |-> "idle", pc |-> "idle"]

NoCall == [op |-> "none"]

InFlight(p) == procs[p].pc # "idle"

\* slot p is free for the next call, and a call may still start
CanBegin(p) ==
    /\ procs[p].pc = "idle"
    /\ \A q \in Procs : q < p => InFlight(q)
    /\ budget > 0

\* the calls in flight beside the one in slot p
Others(p) == {procs[o].op : o \in {q \in Procs \ {p} : InFlight(q)}}

\* a call enters slot p with locals rec; "with" collects the calls that were in
\* flight at any time between its start and its end
Begin(p, rec) ==
    /\ budget' = budget - 1
    /\ last' = NoCall
    /\ procs' = [q \in Procs |->
                    IF q = p THEN [rec EXCEPT !.with = Others(p)]
                    ELSE IF InFlight(q) THEN [procs[q] EXCEPT !.with = @ \cup {rec.op}]
                    ELSE procs[q]]

\* the call in slot p goes on to its next await
Goto(p, rec) ==
    /\ procs' = [procs EXCEPT ![p] = rec]
    /\ last' = NoCall
    /\ UNCHANGED budget

\* the call in slot p returns (or throws) with outcome rec
Return(p, rec) ==
    /\ procs' = [procs EXCEPT ![p] = Idle]
    /\ last' = rec
    /\ UNCHANGED budget

\* a call that returns at its first await
BeginReturn(p, rec) ==
    /\ budget' = budget - 1
    /\ last' = [rec EXCEPT !.with = Others(p)]
    /\ procs' = [q \in Procs |->
                    IF InFlight(q) THEN [procs[q] EXCEPT !.with = @ \cup {rec.op}]
                    ELSE procs[q]]

Tick ==
    /\ \E d \in ClockDays : DayNumber(d) > DayNumber(now) /\ now' = d
    /\ last' = NoCall
    /\ UNCHANGED <<users, rides, weekly, flags, nextRideId, procs, budget>>

----------------------------------------------------------------------------
(* models/Ride.js *)

\* rideSchema.pre('save')
\* a hook that forgets to halve the product
preSaveUnhalved(ride) ==
    IF ride.distance # 0 /\ ride.averageSpeed # 0
    THEN [ride EXCEPT !.coinsEarned = ride.distance * ride.averageSpeed]
    ELSE ride

preSave(ride) ==
    IF ride.distance # 0 /\ ride.averageSpeed # 0
    THEN [ride EXCEPT !.coinsEarned = (ride.distance * ride.averageSpeed + 1) \div 2]
    ELSE ride

\* the min: 0 validators of the schema, run by save()
rideValid(ride) ==
    /\ ride.distance >= 0 /\ ride.averageSpeed >= 0 /\ ride.movingTime >= 0
    /\ ride.elevationGained >= 0 /\ ride.coinsEarned >= 0

\* an update that $sets totalCoins to n instead of adding n
setTotalCoins(userId, n) ==
    IF userId \in DOMAIN users
    THEN [users EXCEPT ![userId].totalCoins = n]
    ELSE users

\* User.findByIdAndUpdate(userId, { $inc: { totalCoins: n } }): atomic, no-op without user
incTotalCoins(userId, n) ==
    IF userId \in DOMAIN users
    THEN [users EXCEPT ![userId].totalCoins = @ + n]
    ELSE users

----------------------------------------------------------------------------
(* controllers/rideController.js: createRide *)

\* up to "await ride.save()"
createRide(p, userId, body) ==
    LET ride == preSave([_id |-> nextRideId, userId |-> userId,
                         distance |-> body.distance, averageSpeed |-> body.averageSpeed,
                         movingTime |-> body.movingTime,
                         elevationGained |-> body.elevationGained,
                         coinsEarned |-> (body.distance * body.averageSpeed + 1) \div 2,
                         activityDate |-> now,
                         rideName |-> "Unnamed Ride", isFlagged |-> FALSE,
                         segments |-> <<>>, photos |-> <<>>, videos |-> <<>>])
    IN  /\ CanBegin(p)
        /\ nextRideId <= MaxRides
        /\ IF rideValid(ride)
           THEN /\ Begin(p, [op |-> "createRide", pc |-> "inc", userId |-> userId,
                             ride |-> ride, pre |-> users[userId], with |-> {}])
                /\ rides' = rides \cup {ride}
                /\ nextRideId' = nextRideId + 1
           ELSE /\ BeginReturn(p, [op |-> "createRide", status |-> 500,
                             userId |-> userId, with |-> {}])
                /\ UNCHANGED <<rides, nextRideId>>
        /\ UNCHANGED <<users, weekly, flags, now>>

\* "await User.findByIdAndUpdate(...)" and the 201 response
createRideInc(p) ==
    /\ procs[p].op = "createRide" /\ procs[p].pc = "inc"
    /\ users' = incTotalCoins(procs[p].userId, procs[p].ride.coinsEarned)
    /\ Return(p, procs[p] @@ [status |-> 201])
    /\ UNCHANGED <<rides, weekly, flags, nextRideId, now>>

----------------------------------------------------------------------------
(* controllers/rideController.js: deleteRide (owner) *)

\* a deleteRide without the ownership check
deleteRideByAnyone(p, userId, rideId) ==
    /\ CanBegin(p)
    /\ IF \A r \in rides : r._id # rideId
       THEN BeginReturn(p, [op |-> "deleteRide", status |-> 404,
                      userId |-> userId, rideId |-> rideId, with |-> {}])
       ELSE LET ride == CHOOSE r \in rides : r._id = rideId
            IN  Begin(p, [op |-> "deleteRide", pc |-> "inc", userId |-> userId,
                          rideId |-> rideId, ride |-> ride, pre |-> users[userId],
                          with |-> {}])
    /\ UNCHANGED <<users, rides, weekly, flags, nextRideId, now>>

\* "await Ride.findById(rideId)" and the 404 / 403 answers
deleteRide(p, userId, rideId) ==
    /\ CanBegin(p)
    /\ IF \A r \in rides : r._id # rideId
       THEN BeginReturn(p, [op |-> "deleteRide", status |-> 404,
                      userId |-> userId, rideId |-> rideId, with |-> {}])
       ELSE LET ride == CHOOSE r \in rides : r._id = rideId
            IN  IF ride.userId # userId
                THEN BeginReturn(p, [op |-> "deleteRide", status |-> 403,
                               userId |-> userId, rideId |-> rideId, with |-> {}])
                ELSE Begin(p, [op |-> "deleteRide", pc |-> "inc", userId |-> userId,
                               rideId |-> rideId, ride |-> ride, pre |-> users[userId], with |-> {}])
    /\ UNCHANGED <<users, rides, weekly, flags, nextRideId, now>>

\* "await User.findByIdAndUpdate(userId, { $inc: { totalCoins: -ride.coinsEarned } })"
deleteRideInc(p) ==
    /\ procs[p].op = "deleteRide" /\ procs[p].pc = "inc"
    /\ users' = incTotalCoins(procs[p].userId, -procs[p].ride.coinsEarned)
    /\ Goto(p, [procs[p] EXCEPT !.pc = "delete"])
    /\ UNCHANGED <<rides, weekly, flags, nextRideId, now>>

\* "await Ride.findByIdAndDelete(rideId)" and the 200 response
deleteRideDelete(p) ==
    /\ procs[p].op = "deleteRide" /\ procs[p].pc = "delete"
    /\ rides' = {r \in rides : r._id # procs[p].ride._id}
    /\ Return(p, procs[p] @@ [status |-> 200])
    /\ UNCHANGED <<users, weekly, flags, nextRideId, now>>

----------------------------------------------------------------------------
(* utils/calculateStats.js: updateUserStats *)

\* an updateUserStats that returns quietly when there is no such user
updateUserStatsQuiet(p, userId, ride) ==
    /\ CanBegin(p)
    /\ IF userId \in DOMAIN users
       THEN Begin(p, [op |-> "updateUserStats", pc |-> "save", userId |-> userId,
                      ride |-> ride, user |-> users[userId], with |-> {}])
       ELSE BeginReturn(p, [op |-> "updateUserStats", userId |-> userId,
                      error |-> "none", with |-> {}])
    /\ UNCHANGED <<users, rides, weekly, flags, nextRideId, now>>

\* "await User.findById(userId)" and the not-found throw
updateUserStats(p, userId, ride) ==
    /\ CanBegin(p)
    /\ IF userId \in DOMAIN users
       THEN Begin(p, [op |-> "updateUserStats", pc |-> "save", userId |-> userId,
                      ride |-> ride, user |-> users[userId], with |-> {}])
       ELSE BeginReturn(p, [op |-> "updateUserStats", userId |-> userId,
                      error |-> "User not found", with |-> {}])
    /\ UNCHANGED <<users, rides, weekly, flags, nextRideId, now>>

\* the field updates, updateBestEfforts and "await user.save()"
updateUserStatsSave(p) ==
    /\ procs[p].op = "updateUserStats" /\ procs[p].pc = "save"
    /\ LET loaded == procs[p].user
           user == applyRideToUser(loaded, procs[p].ride, getFullYear(now))
       IN  /\ users' = [users EXCEPT ![procs[p].userId] =
                            saveDoc(@, user, modifiedPaths(loaded, user))]
           /\ Return(p, [procs[p] EXCEPT !.user = user]
                            @@ [loaded |-> loaded, stored |-> users[procs[p].userId],
                                error |-> "none"])
    /\ UNCHANGED <<rides, weekly, flags, nextRideId, now>>

----------------------------------------------------------------------------
(* utils/calculateStats.js: recalculateUserStats *)

\* "await User.findById(userId)" and the not-found throw; "after" keeps the call
\* that returned right before this one started
recalculateUserStats(p, userId) ==
    /\ CanBegin(p)
    /\ IF userId \in DOMAIN users
       THEN Begin(p, [op |-> "recalculateUserStats", pc |-> "find", userId |-> userId,
                      user |-> users[userId], after |-> last, with |-> {}])
       ELSE BeginReturn(p, [op |-> "recalculateUserStats", userId |-> userId,
                      error |-> "User not found", with |-> {}])
    /\ UNCHANGED <<users, rides, weekly, flags, nextRideId, now>>

\* "await Ride.find({ userId }).sort({ activityDate: 1 })"
recalculateUserStatsFind(p) ==
    /\ procs[p].op = "recalculateUserStats" /\ procs[p].pc = "find"
    /\ \E rideSeq \in findRidesSorted(procs[p].userId) :
          Goto(p, [procs[p] EXCEPT !.pc = "save"] @@ [rides |-> rideSeq])
    /\ UNCHANGED <<users, rides, weekly, flags, nextRideId, now>>

\* the reset, the loop over the rides read and "await user.save()"
recalculateUserStatsSave(p) ==
    /\ procs[p].op = "recalculateUserStats" /\ procs[p].pc = "save"
    /\ LET loaded == procs[p].user
           user == recalcUser(loaded, procs[p].rides, getFullYear(now))
           modified == modifiedPaths(loaded, resetStats(loaded))
                           \cup modifiedPaths(resetStats(loaded), user)
       IN  /\ users' = [users EXCEPT ![procs[p].userId] = saveDoc(@, user, modified)]
           /\ Return(p, [procs[p] EXCEPT !.user = user] @@ [loaded |-> loaded, error |-> "none"])
    /\ UNCHANGED <<rides, weekly, flags, nextRideId, now>>

----------------------------------------------------------------------------
(* The user-aggregate side: ride creation and deletion requests and the     *)
(* two aggregate utilities, interleaved at their awaits.                    *)

Init ==
    /\ users = [u \in UserIds |-> newUser]
    /\ rides = {}
    /\ weekly = {}
    /\ flags = {}
    /\ nextRideId = 1
    /\ now = DateOf(2024, 11, 30)
    /\ procs = [p \in 1..NumProcs |-> Idle]
    /\ budget = MaxRequests
    /\ last = NoCall

Next ==
    \/ Tick
    \/ \E p \in Procs, u \in UserIds, b \in RideInputs : createRide(p, u, b)
    \/ \E p \in Procs : createRideInc(p)
    \/ \E p \in Procs, u \in UserIds, id \in 1..MaxRides : deleteRide(p, u, id)
    \/ \E p \in Procs : deleteRideInc(p)
    \/ \E p \in Procs : deleteRideDelete(p)
    \/ \E p \in Procs, r \in rides : \E u \in {r.userId, NoUser} : updateUserStats(p, u, r)
    \/ \E p \in Procs : updateUserStatsSave(p)
    \/ \E p \in Procs, u \in UserIds \cup {NoUser} : recalculateUserStats(p, u)
    \/ \E p \in Procs : recalculateUserStatsFind(p)
    \/ \E p \in Procs : recalculateUserStatsSave(p)

Spec == Init /\ [][Next]_vars

SeqInit ==
    /\ users = [u \in UserIds |-> newUser]
    /\ rides = {}
    /\ weekly = {}
    /\ flags = {}
    /\ nextRideId = 1
    /\ now = DateOf(2024, 11, 30)
    /\ procs = [p \in {1} |-> Idle]
    /\ budget = MaxSeqRequests
    /\ last = NoCall

\* the same requests and calls, one at a time
SpecSeq == SeqInit /\ [][Next]_vars

----------------------------------------------------------------------------
(* models/WeeklyStats.js *)

\* a getWeekNumber that counts from 1 January of the date's own year
getWeekNumberInCalendarYear(date) ==
    LET d == DateOf(getFullYear(date), getMonth(date), getDate(date))
        yearStart == DateOf(getFullYear(d), 0, 1)
    IN  ((DayNumber(d) - DayNumber(yearStart)) + 1 + 6) \div 7

\* getWeekNumber(date): "ISO week number"
getWeekNumber(date) ==
    LET d == DateOf(getFullYear(date), getMonth(date), getDate(date))
        dayNum == IF getDay(d) = 0 THEN 7 ELSE getDay(d)
        thursday == setDate(d, getDate(d) + 4 - dayNum)
        yearStart == DateOf(getFullYear(thursday), 0, 1)
    IN  ((DayNumber(thursday) - DayNumber(yearStart)) + 1 + 6) \div 7

\* getWeekBounds(date): the days of weekStartDate (00:00:00.000) and weekEndDate (23:59:59.999)
getWeekBounds(date) ==
    LET day == getDay(date)
        diff == getDate(date) - day + (IF day = 0 THEN -6 ELSE 1)
        weekStartDate == setDate(date, diff)
        weekEndDate == setDate(weekStartDate, getDate(weekStartDate) + 6)
    IN  [weekStartDate |-> weekStartDate, weekEndDate |-> weekEndDate]

\* the key getOrCreate looks up and creates under
weekKey(userId, date) ==
    [userId |-> userId, year |-> getFullYear(date), weekNumber |-> getWeekNumber(date)]

hasKey(w, key) ==
    w.userId = key.userId /\ w.year = key.year /\ w.weekNumber = key.weekNumber

\* the document this.create({...}) builds, with the schema defaults
weeklyStatDoc(id, userId, date) ==
    [_id |-> id,
     userId |-> userId, year |-> getFullYear(date), weekNumber |-> getWeekNumber(date),
     totalDistance |-> 0, totalRides |-> 0, totalCoins |-> 0, totalMovingTime |-> 0,
     averageSpeed |-> <<0, 1>>,
     weekStartDate |-> getWeekBounds(date).weekStartDate,
     weekEndDate |-> getWeekBounds(date).weekEndDate,
     fedBy |-> {}]

newWeeklyStat(userId, date) == weeklyStatDoc(Cardinality(weekly) + 1, userId, date)

\* a collection without the unique index
insertAlways(doc) == TRUE

\* the unique index { userId, year, weekNumber }: an insert under a stored key is refused
insertAllowed(doc) == \A w \in weekly : ~hasKey(w, doc)

\* the in-memory mutations of updateWeeklyStats between getOrCreate and save
applyRideToWeek(weeklyStat, ride) ==
    LET w == [weeklyStat EXCEPT !.totalDistance = @ + ride.distance,
                                !.totalRides = @ + 1,
                                !.totalCoins = @ + ride.coinsEarned,
                                !.totalMovingTime = @ + ride.movingTime]
    IN  [w EXCEPT !.averageSpeed = Quot(w.totalDistance * 3600, w.totalMovingTime)]

\* save() validation: a Number path cannot be cast from NaN
weeklyValid(weeklyStat) == weeklyStat.averageSpeed # NaN

----------------------------------------------------------------------------
(* utils/calculateStats.js: updateWeeklyStats, through WeeklyStats.getOrCreate *)

\* "await this.findOne({ userId, year, weekNumber })"
updateWeeklyStats(p, userId, ride) ==
    /\ CanBegin(p)
    /\ LET key == weekKey(userId, ride.activityDate)
       IN  IF \E w \in weekly : hasKey(w, key)
           THEN \E w \in weekly :
                   /\ hasKey(w, key)
                   /\ Begin(p, [op |-> "updateWeeklyStats", pc |-> "save", userId |-> userId,
                                ride |-> ride, weeklyStat |-> w, rivals |-> {},
                                with |-> {}])
           ELSE Begin(p, [op |-> "updateWeeklyStats", pc |-> "create", userId |-> userId,
                          ride |-> ride, with |-> {}])
    /\ UNCHANGED <<users, rides, weekly, flags, nextRideId, now>>

\* the rides of the other calls that found no document under the same key either
Rivals(p) ==
    {procs[q].ride : q \in {o \in Procs \ {p} :
        /\ procs[o].op = "updateWeeklyStats" /\ procs[o].pc = "create"
        /\ weekKey(procs[o].userId, procs[o].ride.activityDate)
               = weekKey(procs[p].userId, procs[p].ride.activityDate)}}

\* "await this.create({...})", which the unique index may refuse
updateWeeklyStatsCreate(p) ==
    /\ procs[p].op = "updateWeeklyStats" /\ procs[p].pc = "create"
    /\ LET doc == newWeeklyStat(procs[p].userId, procs[p].ride.activityDate)
       IN  IF insertAllowed(doc)
           THEN /\ weekly' = weekly \cup {doc}
                /\ Goto(p, [procs[p] EXCEPT !.pc = "save"]
                               @@ [weeklyStat |-> doc, rivals |-> Rivals(p)])
           ELSE /\ Return(p, procs[p] @@ [error |-> "duplicate key"])
                /\ UNCHANGED weekly
    /\ UNCHANGED <<users, rides, flags, nextRideId, now>>

\* the totals, the average speed and "await weeklyStat.save()"
updateWeeklyStatsSave(p) ==
    /\ procs[p].op = "updateWeeklyStats" /\ procs[p].pc = "save"
    /\ LET loaded == procs[p].weeklyStat
           weeklyStat == applyRideToWeek(loaded, procs[p].ride)
       IN  IF weeklyValid(weeklyStat)
           THEN /\ weekly' = {IF w._id = loaded._id
                              THEN [saveDoc(w, weeklyStat, modifiedPaths(loaded, weeklyStat))
                                        EXCEPT !.fedBy = w.fedBy \cup {procs[p].ride.activityDate}]
                              ELSE w : w \in weekly}
                /\ Return(p, [procs[p] EXCEPT !.weeklyStat = weeklyStat]
                                 @@ [loaded |-> loaded, error |-> "none",
                                     stored |-> CHOOSE w \in weekly : w._id = loaded._id])
           ELSE /\ Return(p, procs[p] @@ [error |-> "validation failed"])
                /\ UNCHANGED weekly
    /\ UNCHANGED <<users, rides, flags, nextRideId, now>>

----------------------------------------------------------------------------
(* The weekly side: updateWeeklyStats calls for ride objects of several     *)
(* weeks, interleaved at their awaits.                                      *)

\* Wed 2024-01-03, Mon 2024-12-30, Thu 2025-01-02, Fri 2027-01-01
WeekDays == {DateOf(2024, 0, 3), DateOf(2024, 11, 30), DateOf(2025, 0, 2), DateOf(2027, 0, 1)}

WeeklyBodies == {b \in RideInputs : b.distance >= 20}

WeeklyRides ==
    {preSave([_id |-> 0, userId |-> u,
              distance |-> b.distance, averageSpeed |-> b.averageSpeed,
              movingTime |-> b.movingTime, elevationGained |-> b.elevationGained,
              coinsEarned |-> (b.distance * b.averageSpeed + 1) \div 2,
              activityDate |-> d,
                         rideName |-> "Unnamed Ride", isFlagged |-> FALSE,
                         segments |-> <<>>, photos |-> <<>>, videos |-> <<>>]) : u \in UserIds, b \in WeeklyBodies, d \in WeekDays}

WeeklyInit ==
    /\ users = [u \in UserIds |-> newUser]
    /\ rides = {}
    /\ weekly = {}
    /\ flags = {}
    /\ nextRideId = 1
    /\ now = DateOf(2027, 0, 1)
    /\ procs = [p \in 1..NumProcs |-> Idle]
    /\ budget = MaxWeeklyCalls
    /\ last = NoCall

WeeklyNext ==
    \/ \E p \in Procs, r \in WeeklyRides : updateWeeklyStats(p, r.userId, r)
    \/ \E p \in Procs : updateWeeklyStatsCreate(p)
    \/ \E p \in Procs : updateWeeklyStatsSave(p)

SpecWeekly == WeeklyInit /\ [][WeeklyNext]_vars

----------------------------------------------------------------------------
(* Replay: a ride history is stored ride by ride in activityDate order and  *)
(* each ride is handed to updateUserStats as it is stored, one call at a    *)
(* time and under a wall clock that stays in one year; recalculateUserStats *)
(* may run after any prefix.                                                *)

\* Wed 2024-01-03, Mon 2024-12-30, Thu 2025-01-02
ReplayDays == {DateOf(2024, 0, 3), DateOf(2024, 11, 30), DateOf(2025, 0, 2)}

\* a ride document is stored and updateUserStats(userId, ride) runs to its end
replayRide(p, userId, body, date) ==
    LET ride == preSave([_id |-> nextRideId, userId |-> userId,
                         distance |-> body.distance, averageSpeed |-> body.averageSpeed,
                         movingTime |-> body.movingTime,
                         elevationGained |-> body.elevationGained,
                         coinsEarned |-> (body.distance * body.averageSpeed + 1) \div 2,
                         activityDate |-> date,
                         rideName |-> "Unnamed Ride", isFlagged |-> FALSE,
                         segments |-> <<>>, photos |-> <<>>, videos |-> <<>>])
        loaded == users[userId]
        user == applyRideToUser(loaded, ride, getFullYear(now))
    IN  /\ CanBegin(p)
        /\ \A r \in rides : DayNumber(r.activityDate) <= DayNumber(date)
        /\ rides' = rides \cup {ride}
        /\ nextRideId' = nextRideId + 1
        /\ users' = [users EXCEPT ![userId] = saveDoc(@, user, modifiedPaths(loaded, user))]
        /\ BeginReturn(p, [op |-> "updateUserStats", userId |-> userId, ride |-> ride,
                           user |-> user, loaded |-> loaded, stored |-> loaded,
                           error |-> "none", with |-> {}])
        /\ UNCHANGED <<weekly, flags, now>>

ReplayInit ==
    /\ users = [u \in UserIds |-> newUser]
    /\ rides = {}
    /\ weekly = {}
    /\ flags = {}
    /\ nextRideId = 1
    /\ now \in ClockDays
    /\ procs = [p \in {1} |-> Idle]
    /\ budget = MaxReplayCalls
    /\ last = NoCall

ReplayNext ==
    \/ \E p \in Procs, u \in UserIds, b \in RideInputs, d \in ReplayDays : replayRide(p, u, b, d)
    \/ \E p \in Procs, u \in UserIds : recalculateUserStats(p, u)
    \/ \E p \in Procs : recalculateUserStatsFind(p)
    \/ \E p \in Procs : recalculateUserStatsSave(p)

SpecReplay == ReplayInit /\ [][ReplayNext]_vars

----------------------------------------------------------------------------
(* What the claims compare the aggregates with *)

RECURSIVE Sum(_, _)
Sum(S, field) ==
    IF S = {} THEN 0
    ELSE LET r == CHOOSE x \in S : TRUE IN r[field] + Sum(S \ {r}, field)

Max(S, field) ==
    IF S = {} THEN 0 ELSE CHOOSE v \in {r[field] : r \in S} : \A r \in S : r[field] <= v

\* the least N / averageSpeed * 3600 over the rides that cover N km, null without one
BestTime(S, N) ==
    LET times == {Quot(N * 3600, r.averageSpeed) : r \in {x \in S : x.distance >= N}}
    IN  IF times = {} THEN null
        ELSE CHOOSE t \in times : \A o \in times : ~Less(o, t)

EffortSet == {effortDistances[i] : i \in DOMAIN effortDistances}

NobodyInFlight == \A p \in Procs : ~InFlight(p)

RecalcReturned == last.op = "recalculateUserStats" /\ last.error = "none"

----------------------------------------------------------------------------
(* Claims *)

\* C1: replaying a ride history in activityDate order through updateUserStats from
\* a zeroed aggregate leaves every aggregate field at the value one
\* recalculateUserStats call computes from the same stored rides (same wall-clock
\* year): the recompute finds the aggregate it read already equal to its result.
C1_ReplayEqualsRecompute ==
    RecalcReturned => (last.user = last.loaded /\ users[last.userId] = last.user)

\* C1 witness: a recompute after a replay of two or more rides of the user, one of
\* them outside the current year and one long enough for a best effort
C1_Witness ==
    /\ RecalcReturned
    /\ Cardinality(ridesOf(last.userId)) >= 2
    /\ last.user.best20kmTime # null
    /\ last.user.distanceThisYear > 0
    /\ last.user.distanceThisYear < last.user.totalDistance

\* C2: after a recalculateUserStats(u) that ran with no other call in flight, u's
\* aggregate is computed from the rides of u stored now: totalDistance and
\* totalCoins are their sums, the three records their maxima (0 without rides),
\* each bestNkmTime the least N / averageSpeed * 3600 over the rides of at least
\* N km (null without one); a deleted ride counts nowhere.
C2_RecomputeReflectsStoredRides ==
    (RecalcReturned /\ last.with = {}) =>
        LET S == ridesOf(last.userId)
            agg == users[last.userId]
        IN  /\ agg.totalDistance = Sum(S, "distance")
            /\ agg.totalCoins = Sum(S, "coinsEarned")
            /\ agg.longestRideDistance = Max(S, "distance")
            /\ agg.longestRideTime = Max(S, "movingTime")
            /\ agg.maxElevationGained = Max(S, "elevationGained")
            /\ \A N \in EffortSet : agg[effortKey(N)] = BestTime(S, N)

\* C2 witness: a recompute for a user who still has a ride, after another ride was
\* deleted, that changed the aggregate it read
C2_Witness ==
    /\ RecalcReturned /\ last.with = {}
    /\ ridesOf(last.userId) # {}
    /\ nextRideId > Cardinality(rides) + 1
    /\ last.user # last.loaded
    /\ last.user.best20kmTime # null

\* C3: a successful createRide for ride r of user u has added r.distance to u's
\* totalDistance and r.coinsEarned to totalCoins, has set a best-effort time
\* for every target distance r covers, and has counted r in exactly one weekly
\* aggregate of r's week; a first ride of 20 km at 25 km/h gives 250 coins,
\* totalDistance 20, best20kmTime 2880 and best10kmTime 1440.
C3_CreateRideUpdatesAggregates ==
    (last.op = "createRide" /\ last.status = 201 /\ last.with = {}) =>
        LET r == last.ride
            agg == users[last.userId]
        IN  /\ agg.totalDistance = last.pre.totalDistance + r.distance
            /\ agg.totalCoins = last.pre.totalCoins + r.coinsEarned
            /\ \A N \in EffortSet : r.distance >= N => agg[effortKey(N)] # null
            /\ Cardinality({w \in weekly :
                    /\ w.userId = last.userId
                    /\ w.weekStartDate = getWeekBounds(r.activityDate).weekStartDate
                    /\ w.totalRides >= 1 /\ w.totalDistance >= r.distance}) = 1
            /\ (r.distance = 20 /\ r.averageSpeed = 25 /\ last.pre = newUser) =>
                    /\ r.coinsEarned = 250
                    /\ agg.totalDistance = 20
                    /\ agg.best20kmTime = <<2880, 1>>
                    /\ agg.best10kmTime = <<1440, 1>>

AllZero(agg) ==
    /\ agg.totalDistance = 0 /\ agg.distanceThisYear = 0 /\ agg.totalCoins = 0
    /\ agg.longestRideDistance = 0 /\ agg.longestRideTime = 0
    /\ agg.maxElevationGained = 0
    /\ \A N \in EffortSet : agg[effortKey(N)] = null

\* the recompute that returned started right after a deleteRide removed the last
\* ride of its user
RecomputedAfterLastRideDeleted ==
    /\ RecalcReturned /\ last.with = {}
    /\ last.after.op = "deleteRide" /\ last.after.status = 200
    /\ last.after.userId = last.userId
    /\ ridesOf(last.userId) = {}

SameWeekInFlight(call) ==
    \E p \in Procs :
        /\ procs[p].op = "updateWeeklyStats"
        /\ weekKey(procs[p].userId, procs[p].ride.activityDate)
              = weekKey(call.userId, call.ride.activityDate)

\* C5: two updateWeeklyStats calls of one user and week that both find no
\* aggregate both return without error, and once both have returned the one
\* aggregate stored for the week counts both rides.
C5_FirstCallsBothCounted ==
    last.op = "updateWeeklyStats" =>
        /\ last.error # "duplicate key"
        /\ (last.error = "none" /\ last.rivals # {} /\ ~SameWeekInFlight(last)) =>
              \E w \in weekly :
                  /\ hasKey(w, weekKey(last.userId, last.ride.activityDate))
                  /\ w.totalRides = 1 + Cardinality(last.rivals)
                  /\ w.totalDistance = last.ride.distance + Sum(last.rivals, "distance")
                  /\ w.totalCoins = last.ride.coinsEarned + Sum(last.rivals, "coinsEarned")
                  /\ w.totalMovingTime = last.ride.movingTime + Sum(last.rivals, "movingTime")

\* C6: no two WeeklyStats documents carry the same (userId, year, weekNumber).
C6_WeeklyKeyUnique ==
    \A w1, w2 \in weekly : hasKey(w1, w2) => w1 = w2

\* C6 witness: of two interleaved getOrCreate calls for one key, one has created
\* the document and the other's create has been refused
C6_Witness ==
    /\ last.op = "updateWeeklyStats" /\ last.error = "duplicate key"
    /\ \E w \in weekly : hasKey(w, weekKey(last.userId, last.ride.activityDate))

\* C7: an updateUserStats call that overlapped only with other updateUserStats
\* calls leaves totalDistance and totalCoins at what was stored when it wrote
\* plus its own ride's distance and coins: no increment is overwritten.
C7_NoIncrementOverwritten ==
    (last.op = "updateUserStats" /\ last.error = "none"
        /\ last.with \subseteq {"updateUserStats"}) =>
        /\ users[last.userId].totalDistance = last.stored.totalDistance + last.ride.distance
        /\ users[last.userId].totalCoins = last.stored.totalCoins + last.ride.coinsEarned

\* C8: no coin credit or debit that completed is lost to a recompute: when
\* recalculateUserStats returns and no call is in flight, totalCoins is the sum
\* of coinsEarned over the user's stored rides.
C8_RecomputeLosesNoUpdate ==
    (RecalcReturned /\ NobodyInFlight) =>
        users[last.userId].totalCoins = Sum(ridesOf(last.userId), "coinsEarned")

\* the ISO week-year of the week that starts on the given Monday: the year of its Thursday
IsoYearOfWeek(weekStartDate) == getFullYear(setDate(weekStartDate, getDate(weekStartDate) + 3))

\* C9: every weekly aggregate is keyed by the ISO week-year of its week, not by
\* the calendar year of the date it was created for.
C9_KeyedByIsoWeekYear ==
    \A w \in weekly : w.year = IsoYearOfWeek(w.weekStartDate)

\* C10: the rides accumulated into one weekly aggregate all lie in one ISO week.
C10_OneWeekPerAggregate ==
    \A w \in weekly : \A d1, d2 \in w.fedBy : getWeekBounds(d1) = getWeekBounds(d2)

----------------------------------------------------------------------------
(* The calendar helpers on their own: getWeekNumber and getWeekBounds are   *)
(* called for every day of a run of consecutive days, getWeekBounds at      *)
(* several times of the day.  Local time has a fixed offset from UTC.       *)

MsPerDay == 86400000

\* a weekStartDate.setHours(...) that leaves the time of day of the argument
keepHours(date, h, m, s, ms) == [day |-> DayNumber(date), ms |-> 12 * 3600 * 1000]

\* a time value, kept as the pair of its whole days since 1970-01-01 and the
\* milliseconds into the day: the given time of day on the date's day
setHours(date, h, m, s, ms) ==
    [day |-> DayNumber(date), ms |-> ((h * 60 + m) * 60 + s) * 1000 + ms]

\* a <= b on time values
TimeLeq(a, b) == a.day < b.day \/ (a.day = b.day /\ a.ms <= b.ms)

\* times of day of the instants handed to getWeekBounds
TimesOfDay == {0, 12 * 3600 * 1000, MsPerDay - 1}

\* weekStartDate.setHours(0, 0, 0, 0)
weekStartTime(bounds) == setHours(bounds.weekStartDate, 0, 0, 0, 0)

\* weekEndDate.setHours(23, 59, 59, 999)
weekEndTime(bounds) == setHours(bounds.weekEndDate, 23, 59, 59, 999)

nextDay ==
    /\ budget > 0
    /\ budget' = budget - 1
    /\ now' = setDate(now, getDate(now) + 1)
    /\ last' = NoCall
    /\ UNCHANGED <<users, rides, weekly, flags, nextRideId, procs>>

callGetWeekNumber ==
    /\ last' = [op |-> "getWeekNumber", date |-> now, result |-> getWeekNumber(now)]
    /\ UNCHANGED <<users, rides, weekly, flags, nextRideId, now, procs, budget>>

callGetWeekBounds(time) ==
    /\ last' = [op |-> "getWeekBounds", date |-> now, time |-> time,
                bounds |-> getWeekBounds(now),
                weekStart |-> weekStartTime(getWeekBounds(now)),
                weekEnd |-> weekEndTime(getWeekBounds(now))]
    /\ UNCHANGED <<users, rides, weekly, flags, nextRideId, now, procs, budget>>

CalendarInit ==
    /\ users = [u \in UserIds |-> newUser]
    /\ rides = {}
    /\ weekly = {}
    /\ flags = {}
    /\ nextRideId = 1
    /\ now = DateOf(2019, 11, 25)
    /\ procs = [p \in {1} |-> Idle]
    /\ budget = MaxCalendarDays
    /\ last = NoCall

CalendarNext ==
    \/ nextDay
    \/ callGetWeekNumber
    \/ \E time \in TimesOfDay : callGetWeekBounds(time)

SpecCalendar == CalendarInit /\ [][CalendarNext]_vars

\* ISO 8601, on day numbers (day 0 is Thursday 1970-01-01)
MondayOf(n) == n - ((n + 3) % 7)

\* the first Thursday of year y
FirstThursday(y) ==
    LET jan1 == DayNumber([year |-> y, month |-> 0, date |-> 1])
    IN  CHOOSE n \in jan1..(jan1 + 6) : n % 7 = 0

\* the Monday that starts ISO week 1 of year y
WeekOne(y) == MondayOf(FirstThursday(y))

IsoWeek(date) ==
    LET n == DayNumber(date)
        y == CHOOSE c \in (date.year - 1)..(date.year + 1) : WeekOne(c) <= n /\ n < WeekOne(c + 1)
    IN  (n - WeekOne(y)) \div 7 + 1

\* C11: for every calendar date getWeekNumber returns the date's ISO-8601 week
\* number (weeks Monday to Sunday, week 1 holds the year's first Thursday), and
\* the number lies in 1..53.
C11_WeekNumberIsIso ==
    last.op = "getWeekNumber" =>
        /\ last.result = IsoWeek(last.date)
        /\ last.result \in 1..53

\* C11 witness: Sunday 2021-01-03 is in week 53 (of 2020)
C11_Witness ==
    /\ last.op = "getWeekNumber"
    /\ last.date = [year |-> 2021, month |-> 0, date |-> 3]
    /\ last.result = 53

C13_ZeroMovingTimeZeroSpeed ==
    \A w \in weekly : w.totalMovingTime = 0 => w.averageSpeed = <<0, 1>>

\* the aggregates of user u for the ISO week of ride r: those of u whose week
\* starts on the Monday of r.activityDate's week
AggregatesOfWeek(S, u, r) ==
    {w \in S : w.userId = u /\ w.weekStartDate = getWeekBounds(r.activityDate).weekStartDate}

\* C14: the step in which an updateWeeklyStats(u, r) call that overlapped no
\* other call writes leaves every aggregate other than that of (u, ISO week of
\* r.activityDate) as it was, and in that one adds r.distance, 1, r.coinsEarned
\* and r.movingTime to the four totals and stores averageSpeed =
\* totalDistance / (totalMovingTime / 3600) of the new totals.
C14_WeeklyUpdateFrame ==
    [][(last'.op = "updateWeeklyStats" /\ last'.error = "none" /\ last'.with = {}) =>
          LET r == last'.ride
              old == last'.loaded
              target == AggregatesOfWeek(weekly', last'.userId, r)
          IN  /\ \A w \in weekly' \ target : w \in weekly
              /\ Cardinality(target) = 1
              /\ \A w \in target :
                    /\ w._id = old._id
                    /\ w.totalDistance = old.totalDistance + r.distance
                    /\ w.totalRides = old.totalRides + 1
                    /\ w.totalCoins = old.totalCoins + r.coinsEarned
                    /\ w.totalMovingTime = old.totalMovingTime + r.movingTime
                    /\ w.averageSpeed = Quot(w.totalDistance * 3600, w.totalMovingTime)
      ]_vars

\* an updateUserStats call has returned the aggregate it saved
UpdateReturned == last.op = "updateUserStats" /\ last.error = "none"

\* C15: over updateUserStats calls on one user, each bestNkmTime, once set,
\* never increases and never goes back to null, and it is set only if a ride
\* applied to the user covered at least N km.
C15_BestEffortsMonotone ==
    UpdateReturned =>
        \A N \in EffortSet :
            LET old == last.loaded[effortKey(N)]
                new == users[last.userId][effortKey(N)]
            IN  /\ old # null => (new # null /\ ~Less(old, new))
                /\ new # null => \E r \in ridesOf(last.userId) : r.distance >= N

\* C15 witness: a slower ride has been applied after a faster one, and a target
\* no ride covered is still null
C15_Witness ==
    /\ UpdateReturned
    /\ last.loaded.best20kmTime # null
    /\ Less(last.loaded.best20kmTime, timeForDistance(20, last.ride))
    /\ last.ride.distance >= 20
    /\ users[last.userId].best20kmTime = last.loaded.best20kmTime
    /\ users[last.userId].best50kmTime = null

\* C16: updateBestEfforts(user, ride) leaves bestDkmTime as it is when
\* ride.distance < D; when ride.distance >= D it sets it to
\* D / ride.averageSpeed * 3600 if it is null or the estimate is strictly
\* smaller, and leaves it as it is otherwise.
C16_BestEffortsRule ==
    UpdateReturned =>
        \A D \in EffortSet :
            LET old == last.loaded[effortKey(D)]
                new == last.user[effortKey(D)]
                estimate == Quot(D * 3600, last.ride.averageSpeed)
            IN  IF last.ride.distance < D THEN new = old
                ELSE IF old = null THEN new = estimate
                ELSE IF Less(estimate, old) THEN new = estimate
                ELSE new = old

\* C16 witness: a ride of exactly 20 km improves the 10 km time, sets the 20 km
\* time for the first time and leaves the 25 km time null
C16_Witness ==
    /\ UpdateReturned
    /\ last.ride.distance = 20
    /\ last.loaded.best10kmTime # null
    /\ Less(last.user.best10kmTime, last.loaded.best10kmTime)
    /\ last.loaded.best20kmTime = null
    /\ last.user.best20kmTime = <<2880, 1>>
    /\ last.user.best25kmTime = null

----------------------------------------------------------------------------
(* calculateCoins on its own, over a grid of distances and speeds *)

CoinInputs == 0..MaxCoinInput

\* the values a request body can carry when no validation runs before the handler
SignedCoinInputs == (0 - MaxCoinInput)..MaxCoinInput

callCalculateCoins(distance, averageSpeed) ==
    /\ last' = [op |-> "calculateCoins", distance |-> distance, averageSpeed |-> averageSpeed,
                result |-> calculateCoins(distance, averageSpeed)]
    /\ UNCHANGED <<users, rides, weekly, flags, nextRideId, now, procs, budget>>

CoinsInit ==
    /\ users = [u \in UserIds |-> newUser]
    /\ rides = {}
    /\ weekly = {}
    /\ flags = {}
    /\ nextRideId = 1
    /\ now = DateOf(2024, 11, 30)
    /\ procs = [p \in {1} |-> Idle]
    /\ budget = 0
    /\ last = NoCall

CoinsNext ==
    \E distance \in SignedCoinInputs, averageSpeed \in SignedCoinInputs :
        callCalculateCoins(distance, averageSpeed)

SpecCoins == CoinsInit /\ [][CoinsNext]_vars

AccumulatedFields ==
    {"totalDistance", "distanceThisYear", "totalCoins",
     "longestRideDistance", "longestRideTime", "maxElevationGained"}

\* C18: over updateUserStats calls with rides of non-negative distance,
\* movingTime, elevationGained and coinsEarned, none of totalDistance,
\* distanceThisYear, totalCoins, longestRideDistance, longestRideTime and
\* maxElevationGained decreases from one call to the next.
C18_TotalsNeverDecrease ==
    UpdateReturned =>
        \A f \in AccumulatedFields : users[last.userId][f] >= last.loaded[f]

\* C18 witness: a ride shorter than the longest one and of another year than the
\* current one has been added to the totals
C18_Witness ==
    /\ UpdateReturned
    /\ last.ride.distance < last.loaded.longestRideDistance
    /\ users[last.userId].longestRideDistance = last.loaded.longestRideDistance
    /\ users[last.userId].totalDistance > last.loaded.totalDistance
    /\ users[last.userId].totalDistance > users[last.userId].distanceThisYear

AggregateCalls == {"updateUserStats", "recalculateUserStats"}

\* C19: updateUserStats and recalculateUserStats for a userId without a user fail
\* with "User not found", and the step in which either of them fails changes no
\* stored aggregate; a call never goes on without its user.
C19_NotFoundPersistsNothing ==
    [][/\ \A p \in DOMAIN procs' :
              procs'[p].op \in AggregateCalls => procs'[p].userId \in DOMAIN users
       /\ (last'.op \in AggregateCalls /\ last'.userId \notin DOMAIN users) =>
              last'.error = "User not found"
       /\ (last'.op \in AggregateCalls /\ last'.error # "none") =>
              (users' = users /\ rides' = rides /\ weekly' = weekly)
      ]_vars

\* C19 witness: recalculateUserStats has failed for a missing user while a user
\* with rides has an aggregate to lose
C19_Witness ==
    /\ last.op = "recalculateUserStats" /\ last.error = "User not found"
    /\ \E u \in DOMAIN users : users[u].totalDistance > 0 /\ ridesOf(u) # {}

\* C20: for distance and averageSpeed >= 0, calculateCoins is the integer
\* nearest to distance * averageSpeed / 2, an exact half going up;
\* calculateCoins(20, 25) = 250.
C20_CoinsRoundHalfUp ==
    /\ calculateCoins(20, 25) = 250
    /\ (last.op = "calculateCoins" /\ last.distance >= 0 /\ last.averageSpeed >= 0) =>
          /\ 2 * last.result - 1 <= last.distance * last.averageSpeed
          /\ last.distance * last.averageSpeed < 2 * last.result + 1

\* C20 witness: 3 * 5 / 2 = 7.5 has given 8
C20_Witness ==
    /\ last.op = "calculateCoins"
    /\ last.distance = 3 /\ last.averageSpeed = 5
    /\ last.result = 8

----------------------------------------------------------------------------
(* controllers/rideController.js: flagRide                                  *)

\* "await Ride.findById(rideId)" and the 404 answer
flagRide(p, userId, rideId) ==
    /\ CanBegin(p)
    /\ Cardinality(flags) < MaxFlags
    /\ IF \A r \in rides : r._id # rideId
       THEN BeginReturn(p, [op |-> "flagRide", status |-> 404, userId |-> userId, with |-> {}])
       ELSE Begin(p, [op |-> "flagRide", pc |-> "find", userId |-> userId,
                      ride |-> CHOOSE r \in rides : r._id = rideId, with |-> {}])
    /\ UNCHANGED <<users, rides, weekly, flags, nextRideId, now>>

\* "await Flag.findOne({ rideId, reportedBy: userId })" and the 400 answer
flagRideFind(p) ==
    /\ procs[p].op = "flagRide" /\ procs[p].pc = "find"
    /\ IF \E f \in flags : f.rideId = procs[p].ride._id /\ f.reportedBy = procs[p].userId
       THEN Return(p, procs[p] @@ [status |-> 400])
       ELSE Goto(p, [procs[p] EXCEPT !.pc = "flag"])
    /\ UNCHANGED <<users, rides, weekly, flags, nextRideId, now>>

\* "await flag.save()": the new flag, status 'pending' by default
flagRideSave(p) ==
    /\ procs[p].op = "flagRide" /\ procs[p].pc = "flag"
    /\ flags' = flags \cup {[_id |-> Cardinality(flags) + 1, rideId |-> procs[p].ride._id,
                             reportedBy |-> procs[p].userId, status |-> "pending"]}
    /\ Goto(p, [procs[p] EXCEPT !.pc = "mark"])
    /\ UNCHANGED <<users, rides, weekly, nextRideId, now>>

\* "await ride.save()" on a loaded ride whose in-memory copy is doc: the
\* pre-save hook runs, then the modified paths are written to the stored
\* document; with nothing modified no write is sent, and a write that finds
\* the document gone throws
saveRide(p, doc) ==
    LET loaded == procs[p].ride
        hooked == preSave(doc)
        modified == modifiedPaths(loaded, hooked)
        stored == {r \in rides : r._id = loaded._id}
    IN  IF modified # {} /\ stored = {}
        THEN /\ Return(p, procs[p] @@ [status |-> 500])
             /\ UNCHANGED rides
        ELSE /\ Return(p, procs[p] @@ [status |-> 200])
             /\ rides' = (rides \ stored) \cup {saveDoc(r, hooked, modified) : r \in stored}

\* "ride.isFlagged = true; await ride.save()"
flagRideMark(p) ==
    /\ procs[p].op = "flagRide" /\ procs[p].pc = "mark"
    /\ saveRide(p, [procs[p].ride EXCEPT !.isFlagged = TRUE])
    /\ UNCHANGED <<users, weekly, flags, nextRideId, now>>

----------------------------------------------------------------------------
(* controllers/adminController.js: deleteRide and reviewFlag.  The          *)
(* AdminLog.create that follows each $inc touches no modelled document and  *)
(* is taken together with the $inc.                                         *)

\* "await Ride.findById(rideId)" and the 404 answer
adminDeleteRide(p, rideId) ==
    /\ CanBegin(p)
    /\ IF \A r \in rides : r._id # rideId
       THEN BeginReturn(p, [op |-> "adminDeleteRide", status |-> 404, with |-> {}])
       ELSE LET ride == CHOOSE r \in rides : r._id = rideId
            IN  Begin(p, [op |-> "adminDeleteRide", pc |-> "inc", ride |-> ride,
                          pre |-> users[ride.userId], with |-> {}])
    /\ UNCHANGED <<users, rides, weekly, flags, nextRideId, now>>

\* "await User.findByIdAndUpdate(ride.userId, { $inc: { totalCoins: -ride.coinsEarned } })"
adminDeleteRideInc(p) ==
    /\ procs[p].op = "adminDeleteRide" /\ procs[p].pc = "inc"
    /\ users' = incTotalCoins(procs[p].ride.userId, -procs[p].ride.coinsEarned)
    /\ Goto(p, [procs[p] EXCEPT !.pc = "delete"])
    /\ UNCHANGED <<rides, weekly, flags, nextRideId, now>>

\* "await Ride.findByIdAndDelete(rideId)"
adminDeleteRideDelete(p) ==
    /\ procs[p].op = "adminDeleteRide" /\ procs[p].pc = "delete"
    /\ rides' = {r \in rides : r._id # procs[p].ride._id}
    /\ Goto(p, [procs[p] EXCEPT !.pc = "flags"])
    /\ UNCHANGED <<users, weekly, flags, nextRideId, now>>

\* "await Flag.updateMany({ rideId, status: 'pending' }, { status: 'resolved', ... })"
adminDeleteRideFlags(p) ==
    /\ procs[p].op = "adminDeleteRide" /\ procs[p].pc = "flags"
    /\ flags' = {IF f.rideId = procs[p].ride._id /\ f.status = "pending"
                 THEN [f EXCEPT !.status = "resolved"] ELSE f : f \in flags}
    /\ Return(p, procs[p] @@ [status |-> 200])
    /\ UNCHANGED <<users, rides, weekly, nextRideId, now>>

\* "await Flag.findById(flagId)" and the 404 / 400 answers
reviewFlag(p, flagId) ==
    /\ CanBegin(p)
    /\ IF \A f \in flags : f._id # flagId
       THEN BeginReturn(p, [op |-> "reviewFlag", status |-> 404, with |-> {}])
       ELSE LET flag == CHOOSE f \in flags : f._id = flagId
            IN  IF flag.status # "pending"
                THEN BeginReturn(p, [op |-> "reviewFlag", status |-> 400, flag |-> flag,
                                     with |-> {}])
                ELSE Begin(p, [op |-> "reviewFlag", pc |-> "find", flag |-> flag,
                               with |-> {}])
    /\ UNCHANGED <<users, rides, weekly, flags, nextRideId, now>>

\* "await Ride.findById(flag.rideId)"
reviewFlagFind(p) ==
    /\ procs[p].op = "reviewFlag" /\ procs[p].pc = "find"
    /\ IF \E r \in rides : r._id = procs[p].flag.rideId
       THEN LET ride == CHOOSE r \in rides : r._id = procs[p].flag.rideId
            IN  Goto(p, [procs[p] EXCEPT !.pc = "inc"]
                            @@ [ride |-> ride, pre |-> users[ride.userId]])
       ELSE Goto(p, [procs[p] EXCEPT !.pc = "resolve"])
    /\ UNCHANGED <<users, rides, weekly, flags, nextRideId, now>>

\* "await User.findByIdAndUpdate(ride.userId, { $inc: { totalCoins: -ride.coinsEarned } })"
reviewFlagInc(p) ==
    /\ procs[p].op = "reviewFlag" /\ procs[p].pc = "inc"
    /\ users' = incTotalCoins(procs[p].ride.userId, -procs[p].ride.coinsEarned)
    /\ Goto(p, [procs[p] EXCEPT !.pc = "delete"])
    /\ UNCHANGED <<rides, weekly, flags, nextRideId, now>>

\* "await Ride.findByIdAndDelete(flag.rideId)"
reviewFlagDelete(p) ==
    /\ procs[p].op = "reviewFlag" /\ procs[p].pc = "delete"
    /\ rides' = {r \in rides : r._id # procs[p].ride._id}
    /\ Goto(p, [procs[p] EXCEPT !.pc = "resolve"])
    /\ UNCHANGED <<users, weekly, flags, nextRideId, now>>

\* "flag.status = 'resolved'; ...; await flag.save()" and the 200 answer
reviewFlagResolve(p) ==
    /\ procs[p].op = "reviewFlag" /\ procs[p].pc = "resolve"
    /\ flags' = {IF f._id = procs[p].flag._id THEN [f EXCEPT !.status = "resolved"] ELSE f :
                    f \in flags}
    /\ Return(p, procs[p] @@ [status |-> 200])
    /\ UNCHANGED <<users, rides, weekly, nextRideId, now>>

----------------------------------------------------------------------------
(* Rides created, applied to the aggregate, flagged and deleted by their    *)
(* owner or by an admin, one request at a time.                             *)

AdminInit ==
    /\ users = [u \in UserIds |-> newUser]
    /\ rides = {}
    /\ weekly = {}
    /\ flags = {}
    /\ nextRideId = 1
    /\ now = DateOf(2024, 11, 30)
    /\ procs = [p \in {1} |-> Idle]
    /\ budget = MaxAdminRequests
    /\ last = NoCall

AdminNext ==
    \/ \E p \in Procs, u \in UserIds, b \in RideInputs : createRide(p, u, b)
    \/ \E p \in Procs : createRideInc(p)
    \/ \E p \in Procs, r \in rides : updateUserStats(p, r.userId, r)
    \/ \E p \in Procs : updateUserStatsSave(p)
    \/ \E p \in Procs, u \in UserIds, id \in 1..MaxRides : deleteRide(p, u, id)
    \/ \E p \in Procs : deleteRideInc(p)
    \/ \E p \in Procs : deleteRideDelete(p)
    \/ \E p \in Procs, u \in UserIds, id \in 1..MaxRides : flagRide(p, u, id)
    \/ \E p \in Procs : flagRideFind(p)
    \/ \E p \in Procs : flagRideSave(p)
    \/ \E p \in Procs : flagRideMark(p)
    \/ \E p \in Procs, id \in 1..MaxRides : adminDeleteRide(p, id)
    \/ \E p \in Procs : adminDeleteRideInc(p)
    \/ \E p \in Procs : adminDeleteRideDelete(p)
    \/ \E p \in Procs : adminDeleteRideFlags(p)
    \/ \E p \in Procs, id \in 1..MaxFlags : reviewFlag(p, id)
    \/ \E p \in Procs : reviewFlagFind(p)
    \/ \E p \in Procs : reviewFlagInc(p)
    \/ \E p \in Procs : reviewFlagDelete(p)
    \/ \E p \in Procs : reviewFlagResolve(p)

SpecAdmin == AdminInit /\ [][AdminNext]_vars

Deletions == {"deleteRide", "adminDeleteRide", "reviewFlag"}

\* a deletion request has been answered 200 after removing a ride
RideDeleted == last.op \in Deletions /\ last.status = 200 /\ "ride" \in DOMAIN last

\* C17: deleting a ride (owner deleteRide, admin deleteRide, reviewFlag) lowers
\* the owner's totalCoins by exactly the ride's coinsEarned and leaves
\* totalDistance, distanceThisYear, the three records and the six best-effort
\* times of that user as they were.
C17_DeletionOnlyTakesCoins ==
    RideDeleted =>
        /\ last.ride \notin rides
        /\ users[last.ride.userId] =
              [last.pre EXCEPT !.totalCoins = @ - last.ride.coinsEarned]

\* C17 witness: reviewFlag has deleted a ride with coins from a user whose
\* aggregate held distance and a best effort
C17_Witness ==
    /\ RideDeleted /\ last.op = "reviewFlag"
    /\ last.ride.coinsEarned > 0
    /\ last.pre.totalDistance > 0
    /\ last.pre.best20kmTime # null
    /\ users[last.ride.userId].totalDistance = last.pre.totalDistance

\* C21: calculateCoins is monotone non-decreasing in each argument over
\* non-negative inputs: d1 <= d2 and s1 <= s2 give
\* calculateCoins(d1, s1) <= calculateCoins(d2, s2).
C21_CoinsMonotone ==
    (last.op = "calculateCoins" /\ last.distance >= 0 /\ last.averageSpeed >= 0) =>
        \A d2 \in CoinInputs, s2 \in CoinInputs :
            (last.distance <= d2 /\ last.averageSpeed <= s2) =>
                last.result <= calculateCoins(d2, s2)

\* C21 witness: the largest inputs of the grid, below which every other pair lies
C21_Witness ==
    /\ last.op = "calculateCoins"
    /\ last.distance = MaxCoinInput /\ last.averageSpeed = MaxCoinInput
    /\ \A d1 \in CoinInputs, s1 \in CoinInputs : calculateCoins(d1, s1) <= last.result
    /\ calculateCoins(1, 1) = calculateCoins(1, 2)

\* C22: a negative distance or averageSpeed never gives a negative coin value.
C22_NoNegativeCoins ==
    last.op = "calculateCoins" => last.result >= 0

----------------------------------------------------------------------------
(* utils/calculateStats.js: getWeeklyGraphData *)

\* document a comes before document b under .sort({ year: 1, weekNumber: 1 })
KeyLess(a, b) == a.year < b.year \/ (a.year = b.year /\ a.weekNumber < b.weekNumber)

\* WeeklyStats.find({ userId }).sort({ year: -1, weekNumber: -1 }): the orders the sort allows
findWeeklySortedDesc(userId) ==
    LET S == {w \in weekly : w.userId = userId}
    IN  {q \in [1..Cardinality(S) -> S] :
            /\ \A i, j \in DOMAIN q : i # j => q[i] # q[j]
            /\ \A i, j \in DOMAIN q : i < j => ~KeyLess(q[i], q[j])}

\* .limit(weeks)
limit(q, weeks) == SubSeq(q, 1, IF Len(q) < weeks THEN Len(q) ELSE weeks)

\* the object the map callback builds; week is the string `W${stat.weekNumber}`
graphEntry(stat) ==
    [week |-> <<"W", stat.weekNumber>>, year |-> stat.year,
     distance |-> stat.totalDistance, rides |-> stat.totalRides,
     coins |-> stat.totalCoins, averageSpeed |-> stat.averageSpeed]

\* an array left in the order it has
notReversed(q) == q

\* .reverse()
reverse(q) == [i \in 1..Len(q) |-> q[Len(q) + 1 - i]]

\* the whole of getWeeklyGraphData: its one await is the find
getWeeklyGraphData(p, userId, weeks) ==
    /\ CanBegin(p)
    /\ \E q \in findWeeklySortedDesc(userId) :
          BeginReturn(p, [op |-> "getWeeklyGraphData", userId |-> userId, weeks |-> weeks,
                          result |-> reverse([i \in 1..Len(limit(q, weeks)) |->
                                                 graphEntry(limit(q, weeks)[i])]),
                          with |-> {}])
    /\ UNCHANGED <<users, rides, weekly, flags, nextRideId, now>>

\* Wed 2024-01-03, Thu 2025-01-02, Wed 2025-01-08, Fri 2027-01-01
GraphDays == {DateOf(2024, 0, 3), DateOf(2025, 0, 2), DateOf(2025, 0, 8), DateOf(2027, 0, 1)}

GraphRides == {r \in WeeklyRides : r.distance = 20}
                 \cup {[r EXCEPT !.activityDate = d] : r \in {x \in WeeklyRides : x.distance = 20},
                                                        d \in GraphDays}

GraphInit ==
    /\ users = [u \in UserIds |-> newUser]
    /\ rides = {}
    /\ weekly = {}
    /\ flags = {}
    /\ nextRideId = 1
    /\ now = DateOf(2027, 0, 1)
    /\ procs = [p \in {1} |-> Idle]
    /\ budget = MaxGraphCalls
    /\ last = NoCall

GraphNext ==
    \/ \E p \in Procs, r \in GraphRides : updateWeeklyStats(p, r.userId, r)
    \/ \E p \in Procs : updateWeeklyStatsCreate(p)
    \/ \E p \in Procs : updateWeeklyStatsSave(p)
    \/ \E p \in Procs, u \in UserIds, weeks \in 1..MaxWeeks : getWeeklyGraphData(p, u, weeks)

SpecGraph == GraphInit /\ [][GraphNext]_vars

\* the aggregates of a user
WeeklyOf(userId) == {w \in weekly : w.userId = userId}

\* C23: getWeeklyGraphData(userId, N) returns min(N, number of aggregates of the
\* user) entries: those of the aggregates with the greatest (year, weekNumber)
\* keys, in strictly ascending (year, weekNumber) order.
C23_GraphIsLatestWeeksAscending ==
    last.op = "getWeeklyGraphData" =>
        LET A == WeeklyOf(last.userId)
            top == {w \in A : Cardinality({v \in A : KeyLess(w, v)}) < last.weeks}
            res == last.result
        IN  /\ Len(res) = (IF Cardinality(A) < last.weeks THEN Cardinality(A) ELSE last.weeks)
            /\ {res[i] : i \in DOMAIN res} = {graphEntry(w) : w \in top}
            /\ \A i, j \in DOMAIN res :
                  i < j => (res[i].year < res[j].year
                              \/ (res[i].year = res[j].year /\ res[i].week[2] < res[j].week[2]))

\* C23 witness: of three aggregates, two of them of one year, the latest two are returned
C23_Witness ==
    /\ last.op = "getWeeklyGraphData"
    /\ Cardinality(WeeklyOf(last.userId)) = 3
    /\ last.weeks = 2
    /\ Len(last.result) = 2
    /\ last.result[1].year = last.result[2].year
    /\ last.result[1].distance > 0

----------------------------------------------------------------------------
(* controllers/rideController.js: updateRide, addSegment, uploadMedia and   *)
(* deleteMedia.  Each loads the ride, answers 404 / 403, changes paths of   *)
(* the loaded copy and ends with "await ride.save()".                       *)

MaxEditRequests == 3

RideNames == {"", "Evening loop"}

MediaUrls == {"a.jpg"}

MediaTypes == {"photo", "video"}

\* "await Ride.findById(rideId)" with the 404 and the ownership 403 answers
\* shared by the four handlers
loadOwnRide(p, op, userId, rideId, body) ==
    /\ CanBegin(p)
    /\ IF \A r \in rides : r._id # rideId
       THEN BeginReturn(p, [op |-> op, status |-> 404, userId |-> userId, with |-> {}])
       ELSE LET ride == CHOOSE r \in rides : r._id = rideId
            IN  IF ride.userId # userId
                THEN BeginReturn(p, [op |-> op, status |-> 403, userId |-> userId,
                                     with |-> {}])
                ELSE Begin(p, [op |-> op, pc |-> "save", userId |-> userId,
                               ride |-> ride, body |-> body, with |-> {}])
    /\ UNCHANGED <<users, rides, weekly, flags, nextRideId, now>>

updateRide(p, userId, rideId, rideName) ==
    loadOwnRide(p, "updateRide", userId, rideId, [rideName |-> rideName])

\* "if (rideName) ride.rideName = rideName; await ride.save()"
updateRideSave(p) ==
    /\ procs[p].op = "updateRide" /\ procs[p].pc = "save"
    /\ saveRide(p, IF procs[p].body.rideName # ""
                   THEN [procs[p].ride EXCEPT !.rideName = procs[p].body.rideName]
                   ELSE procs[p].ride)
    /\ UNCHANGED <<users, weekly, flags, nextRideId, now>>

addSegment(p, userId, rideId) ==
    loadOwnRide(p, "addSegment", userId, rideId, [segmentName |-> ""])

\* "ride.segments.push(newSegment); await ride.save()": a segment is
\* modelled by its segmentNumber
addSegmentSave(p) ==
    /\ procs[p].op = "addSegment" /\ procs[p].pc = "save"
    /\ saveRide(p, [procs[p].ride EXCEPT
                        !.segments = Append(@, Len(procs[p].ride.segments) + 1)])
    /\ UNCHANGED <<users, weekly, flags, nextRideId, now>>

uploadMedia(p, userId, rideId, mediaUrl, mediaType) ==
    loadOwnRide(p, "uploadMedia", userId, rideId,
                [mediaUrls |-> <<mediaUrl>>, mediaType |-> mediaType])

\* "ride.photos.push(...mediaUrls)" or "ride.videos.push(...mediaUrls)", then
\* "await ride.save()"
uploadMediaSave(p) ==
    /\ procs[p].op = "uploadMedia" /\ procs[p].pc = "save"
    /\ saveRide(p, IF procs[p].body.mediaType = "photo"
                   THEN [procs[p].ride EXCEPT !.photos = @ \o procs[p].body.mediaUrls]
                   ELSE [procs[p].ride EXCEPT !.videos = @ \o procs[p].body.mediaUrls])
    /\ UNCHANGED <<users, weekly, flags, nextRideId, now>>

deleteMedia(p, userId, rideId, mediaId, mediaType) ==
    loadOwnRide(p, "deleteMedia", userId, rideId,
                [mediaId |-> mediaId, mediaType |-> mediaType])

\* "ride.photos = ride.photos.filter(url => url !== mediaId)" (or videos),
\* then "await ride.save()"
deleteMediaSave(p) ==
    LET kept(url) == url # procs[p].body.mediaId
    IN  /\ procs[p].op = "deleteMedia" /\ procs[p].pc = "save"
        /\ saveRide(p, IF procs[p].body.mediaType = "photo"
                       THEN [procs[p].ride EXCEPT !.photos = SelectSeq(@, kept)]
                       ELSE [procs[p].ride EXCEPT !.videos = SelectSeq(@, kept)])
        /\ UNCHANGED <<users, weekly, flags, nextRideId, now>>

\* Rides created, renamed, flagged and given segments and media, one request
\* at a time.
EditInit ==
    /\ users = [u \in UserIds |-> newUser]
    /\ rides = {}
    /\ weekly = {}
    /\ flags = {}
    /\ nextRideId = 1
    /\ now = DateOf(2024, 11, 30)
    /\ procs = [p \in {1} |-> Idle]
    /\ budget = MaxEditRequests
    /\ last = NoCall

EditNext ==
    \/ \E p \in Procs, u \in UserIds, b \in RideInputs : createRide(p, u, b)
    \/ \E p \in Procs : createRideInc(p)
    \/ \E p \in Procs, u \in UserIds, id \in 1..MaxRides, n \in RideNames :
            updateRide(p, u, id, n)
    \/ \E p \in Procs : updateRideSave(p)
    \/ \E p \in Procs, u \in UserIds, id \in 1..MaxRides : flagRide(p, u, id)
    \/ \E p \in Procs : flagRideFind(p)
    \/ \E p \in Procs : flagRideSave(p)
    \/ \E p \in Procs : flagRideMark(p)
    \/ \E p \in Procs, u \in UserIds, id \in 1..MaxRides : addSegment(p, u, id)
    \/ \E p \in Procs : addSegmentSave(p)
    \/ \E p \in Procs, u \in UserIds, id \in 1..MaxRides, url \in MediaUrls, t \in MediaTypes :
            uploadMedia(p, u, id, url, t)
    \/ \E p \in Procs : uploadMediaSave(p)
    \/ \E p \in Procs, u \in UserIds, id \in 1..MaxRides, url \in MediaUrls, t \in MediaTypes :
            deleteMedia(p, u, id, url, t)
    \/ \E p \in Procs : deleteMediaSave(p)

SpecEdit == EditInit /\ [][EditNext]_vars

\* C24: every stored ride's coinsEarned equals
\* round(distance * averageSpeed / 2), and no step of updateRide, flagRide,
\* addSegment, uploadMedia or deleteMedia changes the coinsEarned of a ride
\* that stays stored.
C24_CoinsEarnedFixed ==
    [][/\ \A r \in rides' : r.coinsEarned = (r.distance * r.averageSpeed + 1) \div 2
       /\ \A r \in rides, r2 \in rides' :
             r._id = r2._id => r2.coinsEarned = r.coinsEarned]_vars

\* C24 witness: a segment has just been saved on a ride worth 250 coins that
\* was flagged before
C24_Witness ==
    /\ last.op = "addSegment" /\ last.status = 200
    /\ \E r \in rides :
          /\ r._id = last.ride._id
          /\ r.isFlagged /\ r.segments = <<1>>
          /\ r.coinsEarned = 250

----------------------------------------------------------------------------
(* controllers/adminController.js: dismissFlag.  The AdminLog.create after  *)
(* the save touches no modelled document.                                   *)

\* "await Flag.findById(flagId)" and the 404 / 400 answers
dismissFlag(p, flagId) ==
    /\ CanBegin(p)
    /\ IF \A f \in flags : f._id # flagId
       THEN BeginReturn(p, [op |-> "dismissFlag", status |-> 404, with |-> {}])
       ELSE LET flag == CHOOSE f \in flags : f._id = flagId
            IN  IF flag.status # "pending"
                THEN BeginReturn(p, [op |-> "dismissFlag", status |-> 400, flag |-> flag,
                                     with |-> {}])
                ELSE Begin(p, [op |-> "dismissFlag", pc |-> "save", flag |-> flag,
                               with |-> {}])
    /\ UNCHANGED <<users, rides, weekly, flags, nextRideId, now>>

\* "flag.status = 'dismissed'; ...; await flag.save()" and the 200 answer
dismissFlagSave(p) ==
    /\ procs[p].op = "dismissFlag" /\ procs[p].pc = "save"
    /\ flags' = {IF f._id = procs[p].flag._id THEN [f EXCEPT !.status = "dismissed"] ELSE f :
                    f \in flags}
    /\ Return(p, procs[p] @@ [status |-> 200])
    /\ UNCHANGED <<users, rides, weekly, nextRideId, now>>

----------------------------------------------------------------------------
(* Rides created, flagged and deleted, flags reviewed and dismissed, by     *)
(* requests whose awaits interleave.                                        *)

MaxModerationRequests == 4

ModerationInit ==
    /\ users = [u \in UserIds |-> newUser]
    /\ rides = {}
    /\ weekly = {}
    /\ flags = {}
    /\ nextRideId = 1
    /\ now = DateOf(2024, 11, 30)
    /\ procs = [p \in 1..NumProcs |-> Idle]
    /\ budget = MaxModerationRequests
    /\ last = NoCall

ModerationNext ==
    \/ \E p \in Procs, u \in UserIds, b \in RideInputs : createRide(p, u, b)
    \/ \E p \in Procs : createRideInc(p)
    \/ \E p \in Procs, u \in UserIds, id \in 1..MaxRides : deleteRide(p, u, id)
    \/ \E p \in Procs : deleteRideInc(p)
    \/ \E p \in Procs : deleteRideDelete(p)
    \/ \E p \in Procs, u \in UserIds, id \in 1..MaxRides : flagRide(p, u, id)
    \/ \E p \in Procs : flagRideFind(p)
    \/ \E p \in Procs : flagRideSave(p)
    \/ \E p \in Procs : flagRideMark(p)
    \/ \E p \in Procs, id \in 1..MaxRides : adminDeleteRide(p, id)
    \/ \E p \in Procs : adminDeleteRideInc(p)
    \/ \E p \in Procs : adminDeleteRideDelete(p)
    \/ \E p \in Procs : adminDeleteRideFlags(p)
    \/ \E p \in Procs, id \in 1..MaxFlags : reviewFlag(p, id)
    \/ \E p \in Procs : reviewFlagFind(p)
    \/ \E p \in Procs : reviewFlagInc(p)
    \/ \E p \in Procs : reviewFlagDelete(p)
    \/ \E p \in Procs : reviewFlagResolve(p)
    \/ \E p \in Procs, id \in 1..MaxFlags : dismissFlag(p, id)
    \/ \E p \in Procs : dismissFlagSave(p)

SpecModeration == ModerationInit /\ [][ModerationNext]_vars

\* C25: whenever no request is in progress, each user's totalCoins equals the
\* sum of coinsEarned over that user's stored rides and is not negative, over
\* all interleavings of createRide, owner deleteRide, admin deleteRide and
\* reviewFlag.
C25_CoinsConserved ==
    NobodyInFlight =>
        \A u \in UserIds :
            /\ users[u].totalCoins = Sum(ridesOf(u), "coinsEarned")
            /\ users[u].totalCoins >= 0

----------------------------------------------------------------------------
(* updateWeeklyStats calls that interleave on an aggregate that is already  *)
(* stored: the state after updateWeeklyStats("u1", SeedRide) has returned.  *)

MaxSeededCalls == 2

\* Wed 2024-01-03
SeedDay == DateOf(2024, 0, 3)

SeedRide == CHOOSE r \in WeeklyRides :
                r.userId = "u1" /\ r.activityDate = SeedDay /\ r.distance = 20

SeedWeek == [applyRideToWeek(weeklyStatDoc(1, "u1", SeedDay), SeedRide)
                EXCEPT !.fedBy = {SeedDay}]

SeededInit ==
    /\ users = [u \in UserIds |-> newUser]
    /\ rides = {}
    /\ weekly = {SeedWeek}
    /\ flags = {}
    /\ nextRideId = 1
    /\ now = DateOf(2027, 0, 1)
    /\ procs = [p \in 1..NumProcs |-> Idle]
    /\ budget = MaxSeededCalls
    /\ last = NoCall

SpecSeeded == SeededInit /\ [][WeeklyNext]_vars

\* C26: updateWeeklyStats calls that interleave on an aggregate that already
\* exists lose no update: each call that returns leaves totalRides at what was
\* stored when it wrote plus one, and totalDistance, totalCoins and
\* totalMovingTime at what was stored plus its ride's values, so two such
\* calls raise totalRides by 2.
C26_NoWeeklyUpdateLost ==
    (/\ last.op = "updateWeeklyStats" /\ last.error = "none"
     /\ hasKey(SeedWeek, weekKey(last.userId, last.ride.activityDate))) =>
        \E w \in weekly :
            /\ w._id = SeedWeek._id
            /\ w.totalRides = last.stored.totalRides + 1
            /\ w.totalDistance = last.stored.totalDistance + last.ride.distance
            /\ w.totalCoins = last.stored.totalCoins + last.ride.coinsEarned
            /\ w.totalMovingTime = last.stored.totalMovingTime + last.ride.movingTime

\* C27: a deleteRide request for a stored ride whose owner is another user is
\* answered 403 and changes no user, ride, flag or weekly document.
C27_NonOwnerDeleteRefused ==
    [][(/\ last'.op = "deleteRide"
        /\ \E r \in rides : r._id = last'.rideId /\ r.userId # last'.userId) =>
           /\ last'.status = 403
           /\ users' = users /\ rides' = rides /\ flags' = flags /\ weekly' = weekly]_vars

\* C27 witness: u2 was refused the deletion of a ride of u1 that is worth
\* coins u1 still holds
C27_Witness ==
    /\ last.op = "deleteRide" /\ last.status = 403 /\ last.userId = "u2"
    /\ \E r \in rides :
          /\ r._id = last.rideId /\ r.userId = "u1"
          /\ r.coinsEarned > 0
          /\ users["u1"].totalCoins = r.coinsEarned

FlagReviews == {"reviewFlag", "dismissFlag"}

\* C28: a flag leaves 'pending' at most once: a stored status other than
\* 'pending' never changes, and a reviewFlag or dismissFlag that is answered
\* while its flag is already 'resolved' or 'dismissed' carries 400 and changes
\* no flag, ride or user.
C28_FlagProcessedOnce ==
    [][/\ \A f \in flags, g \in flags' :
             (f._id = g._id /\ f.status # "pending") => g.status = f.status
       /\ (/\ last'.op \in FlagReviews /\ last'.status # 404
           /\ \E f \in flags : f._id = last'.flag._id /\ f.status # "pending") =>
              /\ last'.status = 400
              /\ flags' = flags /\ rides' = rides /\ users' = users]_vars

\* C29: every bestNkmTime stored on a user that is not null is a finite
\* positive number of seconds.
C29_BestTimesFinitePositive ==
    \A u \in UserIds : \A D \in EffortSet :
        LET time == users[u][effortKey(D)]
        IN  time # null => (time # Infinity /\ time # NaN /\ Less(<<0, 1>>, time))

----------------------------------------------------------------------------
(* controllers/statsController.js: getYearSummary *)

MaxSummaryRequests == 4

\* the years a summary is asked for; 0 is a request without ?year=
QueryYears == {0, 2024, 2025}

\* "req.query.year || new Date().getFullYear()", "await User.findById(userId)"
\* and the 404 answer
getYearSummary(p, userId, queryYear) ==
    LET year == IF queryYear = 0 THEN getFullYear(now) ELSE queryYear
    IN  /\ CanBegin(p)
        /\ IF userId \notin DOMAIN users
           THEN BeginReturn(p, [op |-> "getYearSummary", status |-> 404, userId |-> userId,
                                year |-> year, with |-> {}])
           ELSE Begin(p, [op |-> "getYearSummary", pc |-> "find", userId |-> userId,
                          year |-> year, user |-> users[userId], with |-> {}])
        /\ UNCHANGED <<users, rides, weekly, flags, nextRideId, now>>

\* the totalDistance of the summary
summaryDistance(user, found) == user.distanceThisYear

\* "await Ride.find({ userId, activityDate: { $gte: startOfYear, $lte: endOfYear } })",
\* the summary and the 200 answer
getYearSummaryFind(p) ==
    LET user == procs[p].user
        found == {r \in ridesOf(procs[p].userId) :
                     getFullYear(r.activityDate) = procs[p].year}
        summary == [year |-> procs[p].year,
                    totalRides |-> Cardinality(found),
                    totalDistance |-> summaryDistance(user, found),
                    totalCoins |-> Sum(found, "coinsEarned"),
                    totalMovingTime |-> Sum(found, "movingTime"),
                    averageDistance |-> IF Cardinality(found) > 0
                                        THEN Quot(user.distanceThisYear, Cardinality(found))
                                        ELSE <<0, 1>>,
                    longestRide |-> Max(found, "distance")]
    IN  /\ procs[p].op = "getYearSummary" /\ procs[p].pc = "find"
        /\ Return(p, procs[p] @@ [status |-> 200, found |-> found, summary |-> summary])
        /\ UNCHANGED <<users, rides, weekly, flags, nextRideId, now>>

\* Rides created, applied to the aggregate and deleted, and year summaries
\* read, one request at a time, while the clock passes the new year.
SummaryInit ==
    /\ users = [u \in UserIds |-> newUser]
    /\ rides = {}
    /\ weekly = {}
    /\ flags = {}
    /\ nextRideId = 1
    /\ now = DateOf(2024, 11, 30)
    /\ procs = [p \in {1} |-> Idle]
    /\ budget = MaxSummaryRequests
    /\ last = NoCall

SummaryNext ==
    \/ Tick
    \/ \E p \in Procs, u \in UserIds, b \in RideInputs : createRide(p, u, b)
    \/ \E p \in Procs : createRideInc(p)
    \/ \E p \in Procs, r \in rides : updateUserStats(p, r.userId, r)
    \/ \E p \in Procs : updateUserStatsSave(p)
    \/ \E p \in Procs, u \in UserIds, id \in 1..MaxRides : deleteRide(p, u, id)
    \/ \E p \in Procs : deleteRideInc(p)
    \/ \E p \in Procs : deleteRideDelete(p)
    \/ \E p \in Procs, u \in UserIds \cup {NoUser}, y \in QueryYears : getYearSummary(p, u, y)
    \/ \E p \in Procs : getYearSummaryFind(p)

SpecSummary == SummaryInit /\ [][SummaryNext]_vars

\* C30: the totalDistance getYearSummary reports for year Y is the sum of
\* distance over the user's stored rides of year Y, the set its totalRides,
\* totalCoins and longestRide are taken from.
C30_YearSummaryDistance ==
    (last.op = "getYearSummary" /\ last.status = 200) =>
        /\ last.found = {r \in ridesOf(last.userId) : getFullYear(r.activityDate) = last.year}
        /\ last.summary.totalRides = Cardinality(last.found)
        /\ last.summary.totalCoins = Sum(last.found, "coinsEarned")
        /\ last.summary.longestRide = Max(last.found, "distance")
        /\ last.summary.totalDistance = Sum(last.found, "distance")

====
